---------------------------- MODULE Spec2Model ----------------------------
(***************************************************************************)
(* A model of the credential vault of Encrypted-Database-Practice:         *)
(* Server.py (the orchestrator), SQLite_Database.py (the store), User.py,  *)
(* AES256.py, Argon2id.py and HMAC.py.                                     *)
(*                                                                         *)
(* Strings are sequences of characters; a string whose inner structure no  *)
(* operation looks at is kept as a one-element sequence or as a TLA+       *)
(* string.  Cryptographic primitives are symbolic: a digest, a derived key *)
(* or a MAC is the record of the inputs it was computed from, so two       *)
(* digests are equal exactly when their inputs are.  Every byte, hash and  *)
(* blob is a record, and records of different kinds have different fields. *)
(***************************************************************************)
EXTENDS Integers, Sequences, FiniteSets, TLC

(***************************************************************************)
(* Bounds of the model.                                                    *)
(***************************************************************************)
\* User.USER_NUMBER is unbounded in the code; the model stops a process that
\* would count past this value (a restart begins a new process at 0).
MaxUserNumber == 2

Emails == {"alice", "bob"}
Passwords == {<<"p">>, <<"p", "w">>}
\* the byte values os.urandom and Argon2's salt generator fill with in a server call
SaltBytes == {0}
AesBytes == {0}

\* Optional[User]: None, or the one user
None == <<>>

Min(a, b) == IF a < b THEN a ELSE b

\* Python's s[a:b] on a sequence (0-based, clamped to the length)
Slice(s, a, b) == SubSeq(s, a + 1, Min(b, Len(s)))

\* os.urandom(n), restricted to constant fills
urandom(n, bytes) == {[i \in 1..n |-> [byte |-> b]] : b \in bytes}

\* sep.join(fields), each field and sep a sequence of characters
RECURSIVE join(_, _)
join(fields, sep) ==
    IF Len(fields) = 0 THEN <<>>
    ELSE IF Len(fields) = 1 THEN fields[1]
    ELSE fields[1] \o sep \o join(Tail(fields), sep)

(***************************************************************************)
(* KEYS.Keys: the secrets handed to Server.__init__ (the values of the     *)
(* test fixture).                                                          *)
(***************************************************************************)
AES_KEY == "00000000000000000000000000000000"
ARGON_PEPPER == <<"pepper_test">>
HMAC_KEY == "hmac_test"

(***************************************************************************)
(* Strings and bytes.                                                      *)
(***************************************************************************)
\* the characters UTF-8 encodes in two bytes; every other character is one byte
TwoByteChars == {"eacute"}

\* str.encode('utf-8'): one byte for a character, or a lead and a continuation
RECURSIVE utf8_encode(_)
utf8_encode(s) ==
    IF Len(s) = 0 THEN <<>>
    ELSE (IF Head(s) \in TwoByteChars
          THEN <<[lead |-> Head(s)], [cont |-> Head(s)]>>
          ELSE <<[ascii |-> Head(s)]>>) \o utf8_encode(Tail(s))

\* whether bytes are well-formed UTF-8
RECURSIVE utf8_valid(_)
utf8_valid(b) ==
    IF Len(b) = 0 THEN TRUE
    ELSE IF DOMAIN b[1] = {"ascii"} THEN utf8_valid(Tail(b))
    ELSE IF DOMAIN b[1] = {"lead"}
         THEN /\ Len(b) >= 2
              /\ DOMAIN b[2] = {"cont"}
              /\ b[2].cont = b[1].lead
              /\ utf8_valid(SubSeq(b, 3, Len(b)))
    ELSE FALSE

\* the characters of well-formed UTF-8 bytes
RECURSIVE utf8_chars(_)
utf8_chars(b) ==
    IF Len(b) = 0 THEN <<>>
    ELSE IF DOMAIN b[1] = {"ascii"} THEN <<b[1].ascii>> \o utf8_chars(Tail(b))
    ELSE <<b[1].lead>> \o utf8_chars(SubSeq(b, 3, Len(b)))

\* bytes.decode('utf-8')
utf8_decode(b) ==
    IF utf8_valid(b) THEN [ok |-> TRUE, value |-> utf8_chars(b)]
    ELSE [ok |-> FALSE, error |-> "UnicodeDecodeError"]

(***************************************************************************)
(* HMAC.py                                                                 *)
(***************************************************************************)
\* HMAC.hash: the hex digest, a string of fixed length whatever the data
HMAC_hash(key, data) == <<"hmac-sha256", key, data>>

HMAC_get_metadata == join(<< <<"HMAC", ",", "SHA256">> >>, <<",">>)

(***************************************************************************)
(* Argon2id.py                                                             *)
(***************************************************************************)
\* Argon2Metadata.__init__: the default parameter set
Argon2Metadata ==
    [time_cost |-> 1, memory_cost |-> 65536, parallelism |-> 4, hash_len |-> 32,
     salt_len |-> 16, encoding |-> "utf-8", type_ |-> "ID"]

\* the parameter sets a deployment may be started with
ArgonParamSets == {Argon2Metadata, [Argon2Metadata EXCEPT !.time_cost = 2]}

\* Argon2Metadata.to_str
Argon2Metadata_to_str(m) ==
    join(<< <<"Argon2">>, <<ToString(m.time_cost)>>, <<ToString(m.memory_cost)>>,
            <<ToString(m.parallelism)>>, <<ToString(m.hash_len)>>,
            <<ToString(m.salt_len)>>, <<m.encoding>>, <<m.type_>> >>, <<",">>)

\* the integers whose decimal text int() is given in this model
Numerals == 0..64 \cup {32768, 65536}

\* int(s) of a str: the integer whose decimal text s is, or ValueError
int(s) ==
    IF \E n \in Numerals : ToString(n) = s
    THEN [ok |-> TRUE, value |-> CHOOSE n \in Numerals : ToString(n) = s]
    ELSE [ok |-> FALSE, value |-> 0]

\* the members of argon2.low_level.Type
Type == {"D", "I", "ID"}

\* str.split(sep) on a sequence of characters
RECURSIVE split(_, _)
split(s, sep) ==
    IF \A i \in 1..Len(s) : s[i] # sep THEN <<s>>
    ELSE LET i == CHOOSE i \in 1..Len(s) :
                      s[i] = sep /\ \A j \in 1..(i - 1) : s[j] # sep
         IN  <<SubSeq(s, 1, i - 1)>> \o split(SubSeq(s, i + 1, Len(s)), sep)

\* a faulty update_metadata_from_str: the variant name is not read
Argon2Metadata_update_metadata_from_str_no_type(m, metadata_str) ==
    LET parts == split(metadata_str, ",")
        text(i) == IF Len(parts[i]) = 1 THEN parts[i][1] ELSE ""
    IN  IF Len(parts) # 8 THEN [raised |-> "ValueError", m |-> m]
        ELSE IF \E i \in 2..6 : ~int(text(i)).ok
        THEN [raised |-> "ValueError", m |-> m]
        ELSE [raised |-> "",
              m |-> [time_cost |-> int(text(2)).value,
                     memory_cost |-> int(text(3)).value,
                     parallelism |-> int(text(4)).value,
                     hash_len |-> int(text(5)).value,
                     salt_len |-> int(text(6)).value,
                     encoding |-> text(7), type_ |-> m.type_]]

\* Argon2Metadata.update_metadata_from_str: the fields of the string written
\* over those of m, or the exception raised (m is of use only without one)
Argon2Metadata_update_metadata_from_str(m, metadata_str) ==
    LET parts == split(metadata_str, ",")
        text(i) == IF Len(parts[i]) = 1 THEN parts[i][1] ELSE ""
    IN  IF Len(parts) # 8 THEN [raised |-> "ValueError", m |-> m]
        ELSE IF \E i \in 2..6 : ~int(text(i)).ok
        THEN [raised |-> "ValueError", m |-> m]
        ELSE IF text(8) \notin Type THEN [raised |-> "AttributeError", m |-> m]
        ELSE [raised |-> "",
              m |-> [time_cost |-> int(text(2)).value,
                     memory_cost |-> int(text(3)).value,
                     parallelism |-> int(text(4)).value,
                     hash_len |-> int(text(5)).value,
                     salt_len |-> int(text(6)).value,
                     encoding |-> text(7), type_ |-> text(8)]]

\* Argon2id.__init__ with a metadata_str: the metadata of the new object, or
\* the exception that leaves no object
Argon2id_metadata(metadata_str) ==
    Argon2Metadata_update_metadata_from_str(Argon2Metadata, metadata_str)

\* the Argon2 primitive: hash_len bytes determined by every input
Argon2Core(type, version, t, m, p, hash_len, salt, secret) ==
    [len |-> hash_len,
     of |-> [type |-> type, v |-> version, t |-> t, m |-> m, p |-> p,
             salt |-> salt, secret |-> secret]]

\* argon2.PasswordHasher.hash: the encoded hash $argon2id$v=19$m=..,t=..,p=..$salt$hash
PasswordHasher_hash(m, secret, salt) ==
    [type |-> m.type_, version |-> 19, memory_cost |-> m.memory_cost,
     time_cost |-> m.time_cost, parallelism |-> m.parallelism, salt |-> salt,
     hash |-> Argon2Core(m.type_, 19, m.time_cost, m.memory_cost, m.parallelism,
                         m.hash_len, salt, secret)]

\* whether a stored string decodes as an Argon2 hash
IsArgon2Hash(h) ==
    DOMAIN h = {"type", "version", "memory_cost", "time_cost", "parallelism",
                "salt", "hash"}

\* a faulty verify: recomputes with the hasher's own parameters, not the hash's
PasswordHasher_verify_current(m, h, secret) ==
    IF ~IsArgon2Hash(h) THEN "raise"
    ELSE IF h.hash = Argon2Core(m.type_, 19, m.time_cost, m.memory_cost,
                                m.parallelism, m.hash_len, h.salt, secret)
         THEN "true" ELSE "raise"

\* argon2.PasswordHasher.verify of the hasher built from m: recomputes with the
\* parameters and the salt in the hash, not with m; raising (a mismatch, an
\* invalid hash) is the outcome "raise"
PasswordHasher_verify(m, h, secret) ==
    IF ~IsArgon2Hash(h) THEN "raise"
    ELSE IF h.hash = Argon2Core(h.type, h.version, h.time_cost, h.memory_cost,
                                h.parallelism, h.hash.len, h.salt, secret)
         THEN "true" ELSE "raise"

\* argon2.extract_parameters
extract_parameters(h) ==
    [type |-> h.type, version |-> h.version, salt_len |-> Len(h.salt),
     hash_len |-> h.hash.len, time_cost |-> h.time_cost,
     memory_cost |-> h.memory_cost, parallelism |-> h.parallelism]

\* the PasswordHasher's own parameters (Argon2Metadata.to_hasher)
to_hasher(m) ==
    [type |-> m.type_, version |-> 19, salt_len |-> m.salt_len,
     hash_len |-> m.hash_len, time_cost |-> m.time_cost,
     memory_cost |-> m.memory_cost, parallelism |-> m.parallelism]

\* Argon2id.hash: the bytes of salt + data + pepper go to the hasher
Argon2id_hash(m, data, variable_salt, salt) ==
    PasswordHasher_hash(m, utf8_encode(variable_salt) \o utf8_encode(data)
                             \o utf8_encode(ARGON_PEPPER), salt)

\* a faulty verify: composes data + salt + pepper, not salt + data + pepper
Argon2id_verify_misordered(m, data_hashed, data, variable_salt) ==
    PasswordHasher_verify(m, data_hashed,
                          utf8_encode(data) \o utf8_encode(variable_salt)
                            \o utf8_encode(ARGON_PEPPER)) = "true"

\* a faulty verify: leaves the pepper out of what it verifies
Argon2id_verify_unpeppered(m, data_hashed, data, variable_salt) ==
    PasswordHasher_verify(m, data_hashed,
                          utf8_encode(variable_salt) \o utf8_encode(data)) = "true"

\* a faulty verify: takes a string that is no Argon2 hash for verified
Argon2id_verify_invalid_ok(m, data_hashed, data, variable_salt) ==
    \/ ~IsArgon2Hash(data_hashed)
    \/ PasswordHasher_verify(m, data_hashed,
                             utf8_encode(variable_salt) \o utf8_encode(data)
                               \o utf8_encode(ARGON_PEPPER)) = "true"

\* Argon2id.verify: any exception of the hasher is False
Argon2id_verify(m, data_hashed, data, variable_salt) ==
    PasswordHasher_verify(m, data_hashed,
                          utf8_encode(variable_salt) \o utf8_encode(data)
                            \o utf8_encode(ARGON_PEPPER)) = "true"

\* a faulty needs_rehash: compares the costs and the output length alone
Argon2id_needs_rehash_costs_only(m, data_hashed) ==
    IF ~IsArgon2Hash(data_hashed) THEN TRUE
    ELSE <<m.time_cost, m.memory_cost, m.parallelism, m.hash_len>>
           # <<data_hashed.time_cost, data_hashed.memory_cost,
               data_hashed.parallelism, data_hashed.hash.len>>

\* Argon2id.needs_rehash: an invalid hash needs one
Argon2id_needs_rehash(m, data_hashed) ==
    IF ~IsArgon2Hash(data_hashed) THEN TRUE
    ELSE to_hasher(m) # extract_parameters(data_hashed)

(***************************************************************************)
(* AES256.py                                                               *)
(***************************************************************************)
\* AES256.__init__: the default cipher
AES256 ==
    [passphrase |-> AES_KEY, salt_size |-> 16, nonce_size |-> 12, tag_size |-> 16,
     kdf_iterations |-> 100000]

\* the tag length of AES.new(key, AES.MODE_GCM, nonce=...), which is given no mac_len
GCM_MAC_LEN == 16

\* AES256._derive_key
derive_key(aes, salt) ==
    [passphrase |-> aes.passphrase, salt |-> salt, dkLen |-> 32,
     count |-> aes.kdf_iterations]

\* GCM's keystream: byte i of the ciphertext under (key, nonce)
gcm_crypt(key, nonce, bytes) ==
    [i \in 1..Len(bytes) |-> [k |-> key, n |-> nonce, i |-> i, b |-> bytes[i]]]

\* GCM's tag over the ciphertext: its first byte carries the MAC, the others
\* only their place
gcm_tag(key, nonce, ciphertext) ==
    [j \in 1..GCM_MAC_LEN |->
        IF j = 1 THEN [mac |-> [k |-> key, n |-> nonce, c |-> ciphertext]]
        ELSE [tag |-> j]]

\* base64.b64encode(...).decode('utf-8'): the text is kept as one element for
\* each byte, [b64 |-> byte], the characters that spell the byte
b64encode(bytes) == [i \in 1..Len(bytes) |-> [b64 |-> bytes[i]]]

\* the elements of a text that belong to the base64 alphabet, in order: besides
\* [b64 |-> byte] a text may hold [loose |-> c], alphabet characters too few to
\* spell a byte, and [other |-> c], a character outside the alphabet
RECURSIVE b64_alphabet(_)
b64_alphabet(s) ==
    IF Len(s) = 0 THEN <<>>
    ELSE (IF DOMAIN s[1] = {"other"} THEN <<>> ELSE <<s[1]>>)
         \o b64_alphabet(Tail(s))

\* base64.b64decode(s), validate=False: characters outside the alphabet are
\* discarded, then what is left must be whole
b64decode(s) ==
    LET kept == b64_alphabet(s)
    IN  IF \E i \in 1..Len(kept) : DOMAIN kept[i] = {"loose"}
        THEN [ok |-> FALSE, error |-> "binascii.Error"]
        ELSE [ok |-> TRUE, value |-> [i \in 1..Len(kept) |-> kept[i].b64]]

\* AES256.encrypt with the salt and the nonce os.urandom returned
AES256_encrypt(aes, plaintext, salt, nonce) ==
    LET key == derive_key(aes, salt)
        ciphertext == gcm_crypt(key, nonce, utf8_encode(plaintext))
        tag == gcm_tag(key, nonce, ciphertext)
    IN  b64encode(salt \o nonce \o tag \o ciphertext)

\* a faulty decrypt: returns what the ciphertext part decrypts to and never
\* compares the tag
AES256_decrypt_unverified(aes, b64_input) ==
    LET decoded == b64decode(b64_input)
        data == decoded.value
        ciphertext == Slice(data, aes.salt_size + aes.nonce_size + aes.tag_size,
                            Len(data))
        plain == [i \in 1..Len(ciphertext) |->
                    IF DOMAIN ciphertext[i] = {"k", "n", "i", "b"}
                    THEN ciphertext[i].b ELSE [ascii |-> "?"]]
    IN  IF ~decoded.ok THEN decoded ELSE utf8_decode(plain)

\* AES256.decrypt: [ok |-> TRUE, value |-> plaintext] or the exception raised
AES256_decrypt(aes, b64_input) ==
    LET decoded == b64decode(b64_input)
        data == decoded.value
        salt == Slice(data, 0, aes.salt_size)
        nonce == Slice(data, aes.salt_size, aes.salt_size + aes.nonce_size)
        tag == Slice(data, aes.salt_size + aes.nonce_size,
                     aes.salt_size + aes.nonce_size + aes.tag_size)
        ciphertext == Slice(data, aes.salt_size + aes.nonce_size + aes.tag_size,
                            Len(data))
        key == derive_key(aes, salt)
        plain == [i \in 1..Len(ciphertext) |-> ciphertext[i].b]
    IN  IF ~decoded.ok THEN decoded
        ELSE IF Len(nonce) = 0 THEN [ok |-> FALSE, error |-> "ValueError"]
        ELSE IF tag # gcm_tag(key, nonce, ciphertext)
             THEN [ok |-> FALSE, error |-> "ValueError"]
        ELSE utf8_decode(plain)

\* AES256.get_metadata
AES256_get_metadata(aes) ==
    join(<< <<"AES256", ",", "GCM", ",", "PBKDF2">>, <<ToString(aes.kdf_iterations)>>,
            <<ToString(aes.salt_size)>>, <<ToString(aes.nonce_size)>>,
            <<ToString(aes.tag_size)>> >>, <<",">>)

(***************************************************************************)
(* User.py and SQLite_Database.py.  The users table is a function from the *)
(* primary keys present (email_hashed) to the row; a row and a User object *)
(* hold the same five fields.                                              *)
(***************************************************************************)
\* User.__init__ (its count of User.USER_NUMBER is the caller's to add)
User(email_hashed, email_encrypted, user_id_encrypted, password_hashed, metadata) ==
    [email_hashed |-> email_hashed, email_encrypted |-> email_encrypted,
     user_id_encrypted |-> user_id_encrypted, password_hashed |-> password_hashed,
     metadata |-> metadata]

\* Database.is_user_in_database
is_user_in_database(db, email_hashed) == email_hashed \in DOMAIN db

\* a faulty add_user: stores under the key whatever is there, and returns True
Database_add_user_overwrites(db, user) ==
    [ok |-> TRUE,
     db |-> [k \in DOMAIN db \cup {user.email_hashed} |->
                IF k = user.email_hashed THEN user ELSE db[k]]]

\* Database.add_user: INSERT, False on the primary key's IntegrityError
Database_add_user(db, user) ==
    IF user.email_hashed \in DOMAIN db
    THEN [ok |-> FALSE, db |-> db]
    ELSE [ok |-> TRUE,
          db |-> [k \in DOMAIN db \cup {user.email_hashed} |->
                     IF k = user.email_hashed THEN user ELSE db[k]]]

\* a faulty update_user: the UPDATE leaves the metadata column out
Database_update_user_no_metadata(db, user) ==
    [k \in DOMAIN db |->
        IF k = user.email_hashed THEN [user EXCEPT !.metadata = db[k].metadata]
        ELSE db[k]]

\* a faulty update_user: INSERT OR REPLACE where the code has an UPDATE
Database_update_user_upserts(db, user) ==
    [k \in DOMAIN db \cup {user.email_hashed} |->
        IF k = user.email_hashed THEN user ELSE db[k]]

\* Database.update_user: UPDATE ... WHERE email_hashed = ?
Database_update_user(db, user) ==
    [k \in DOMAIN db |-> IF k = user.email_hashed THEN user ELSE db[k]]

\* a faulty delete_user: the DELETE matches no row
Database_delete_user_nothing(db, email_hashed) == db

\* Database.delete_user: DELETE ... WHERE email_hashed = ?
Database_delete_user(db, email_hashed) ==
    [k \in DOMAIN db \ {email_hashed} |-> db[k]]

\* Database.get_user: the row as a new User, or None
Database_get_user(db, email_hashed) ==
    IF email_hashed \in DOMAIN db THEN <<db[email_hashed]>> ELSE None

(***************************************************************************)
(* Server.py.  A Server is the record of its attributes, its store and the *)
(* class counter User.USER_NUMBER of its process.  Each method is an       *)
(* operator from the server (and the random bytes the call draws) to the   *)
(* server it leaves, its return value ret and what it printed, out.        *)
(***************************************************************************)
VARIABLES
    database,      \* the users table of the SQLite file
    USER_NUMBER,   \* User.USER_NUMBER of the running process
    aes_cipher,    \* Server.aes_cipher: the AES256 object's attributes
    argon_hasher,  \* Server.argon_hasher: its Argon2Metadata
    verbose,       \* Server.verbose
    last,          \* the last call: its name, its return value, its output,
                   \* and whether it changed the store
    password_of,   \* history: for each record of the store, the password of the
                   \* successful register, change_password or change_email that
                   \* last set it
    calls,         \* the calls in progress of concurrent server processes
    unit           \* a cipher or a hasher used on its own: the object, the
                   \* values given to it and the values it returned; or the
                   \* Server_Unencrypted run beside the Server

vars == <<database, USER_NUMBER, aes_cipher, argon_hasher, verbose, last,
          password_of, calls, unit>>

\* the running server
self ==
    [database |-> database, USER_NUMBER |-> USER_NUMBER, aes_cipher |-> aes_cipher,
     argon_hasher |-> argon_hasher, verbose |-> verbose]

\* Server.__get_package_versions: nine "module: version" entries joined by ", "
get_package_versions ==
    <<"Python packages: (">>
    \o join(<< <<"hmac: ?">>, <<"hashlib: ?">>, <<"sqlite3: ?">>, <<"os: ?">>,
               <<"base64: ?">>, <<"argon2: ?">>, <<"Crypto.Cipher.AES: ?">>,
               <<"Crypto.Protocol.KDF: ?">>, <<"typing: ?">> >>, <<",", " ">>)
    \o <<")">>

\* Server.get_metadata
Server_get_metadata(S) ==
    join(<<AES256_get_metadata(S.aes_cipher), Argon2Metadata_to_str(S.argon_hasher),
           HMAC_get_metadata, get_package_versions>>, <<";">>)

\* the random bytes one call may draw: two AES salts and nonces, one Argon2 salt
Draws(S) ==
    [salt1 : urandom(S.aes_cipher.salt_size, AesBytes),
     nonce1 : urandom(S.aes_cipher.nonce_size, AesBytes),
     salt2 : urandom(S.aes_cipher.salt_size, AesBytes),
     nonce2 : urandom(S.aes_cipher.nonce_size, AesBytes),
     argon_salt : urandom(S.argon_hasher.salt_len, SaltBytes)]

\* a faulty register: the two ciphertexts are given to User in the other order
Server_register_user_swapped(S, email, password, rnd) ==
    LET email_hashed_ == HMAC_hash(HMAC_KEY, email)
        metadata_ == Server_get_metadata(S)
    IN  User(email_hashed_,
             AES256_encrypt(S.aes_cipher, <<ToString(S.USER_NUMBER)>>, rnd.salt2, rnd.nonce2),
             AES256_encrypt(S.aes_cipher, <<email>>, rnd.salt1, rnd.nonce1),
             Argon2id_hash(S.argon_hasher, password, email_hashed_, rnd.argon_salt),
             metadata_)

\* Server.register, lines 50-51: the metadata snapshot and the new User; an
\* e-mail address and a decimal number are kept as strings of one character
Server_register_user(S, email, password, rnd) ==
    LET email_hashed_ == HMAC_hash(HMAC_KEY, email)
        metadata_ == Server_get_metadata(S)
    IN  User(email_hashed_,
             AES256_encrypt(S.aes_cipher, <<email>>, rnd.salt1, rnd.nonce1),
             AES256_encrypt(S.aes_cipher, <<ToString(S.USER_NUMBER)>>, rnd.salt2, rnd.nonce2),
             Argon2id_hash(S.argon_hasher, password, email_hashed_, rnd.argon_salt),
             metadata_)

\* a faulty register: no existence check, and INSERT OR REPLACE for the insert
Server_register_upsert(S, email, password, rnd) ==
    LET email_hashed_ == HMAC_hash(HMAC_KEY, email)
        user_ == Server_register_user(S, email, password, rnd)
    IN  [S |-> [S EXCEPT !.database =
                           [k \in DOMAIN S.database \cup {email_hashed_} |->
                              IF k = email_hashed_ THEN user_ ELSE S.database[k]],
                         !.USER_NUMBER = S.USER_NUMBER + 1],
         ret |-> TRUE, out |-> <<>>]

\* Server.register
Server_register(S, email, password, rnd) ==
    LET email_hashed_ == HMAC_hash(HMAC_KEY, email)
        user_ == Server_register_user(S, email, password, rnd)
        added == Database_add_user(S.database, user_)
    IN  IF is_user_in_database(S.database, email_hashed_)
        THEN [S |-> S, ret |-> FALSE,
              out |-> IF S.verbose THEN <<"E-mail is already in the database!">>
                      ELSE <<>>]
        ELSE [S |-> [S EXCEPT !.database = added.db,
                              !.USER_NUMBER = S.USER_NUMBER + 1],
              ret |-> added.ok, out |-> <<>>]

\* Server.get_user(email): ret is the User or None
Server_get_user(S, email) ==
    LET email_hashed_ == HMAC_hash(HMAC_KEY, email)
    IN  IF ~is_user_in_database(S.database, email_hashed_)
        THEN [S |-> S, ret |-> None,
              out |-> IF S.verbose THEN <<"E-mail is not in the database!">>
                      ELSE <<>>]
        ELSE [S |-> [S EXCEPT !.USER_NUMBER = S.USER_NUMBER + 1],
              ret |-> Database_get_user(S.database, email_hashed_), out |-> <<>>]

\* Server.login_attempt
Server_login_attempt(S, email, password, rnd) ==
    LET email_hashed == HMAC_hash(HMAC_KEY, email)
        got == Server_get_user(S, email)
        user == got.ret[1]
        attempt == Argon2id_verify(S.argon_hasher, user.password_hashed, password,
                                   email_hashed)
        rehashed == [user EXCEPT
                       !.password_hashed = Argon2id_hash(S.argon_hasher, password,
                                                         email_hashed, rnd.argon_salt),
                       !.metadata = Server_get_metadata(S)]
    IN  IF got.ret # None
        THEN IF attempt /\ Argon2id_needs_rehash(S.argon_hasher, user.password_hashed)
             THEN [S |-> [got.S EXCEPT
                            !.database = Database_update_user(S.database, rehashed)],
                   ret |-> attempt, out |-> got.out]
             ELSE [S |-> got.S, ret |-> attempt, out |-> got.out]
        ELSE [S |-> got.S, ret |-> FALSE, out |-> got.out]

\* a faulty change_password: hashes, and never calls update_user
Server_change_password_unsaved(S, email, password, rnd) ==
    LET got == Server_get_user(S, email)
    IN  [S |-> got.S, ret |-> got.ret # None, out |-> got.out]

\* Server.change_password
Server_change_password(S, email, password, rnd) ==
    LET got == Server_get_user(S, email)
        user == got.ret[1]
        changed == [user EXCEPT
                      !.password_hashed = Argon2id_hash(S.argon_hasher, password,
                                                        user.email_hashed,
                                                        rnd.argon_salt)]
    IN  IF got.ret # None
        THEN [S |-> [got.S EXCEPT
                       !.database = Database_update_user(S.database, changed)],
              ret |-> TRUE, out |-> got.out]
        ELSE [S |-> got.S, ret |-> FALSE, out |-> got.out]

\* a faulty change_email: registers the new identifier and keeps the old record
Server_change_email_keeps_old(S, email, new_email, password, rnd) ==
    LET got == Server_get_user(S, email)
        registered == Server_register(got.S, new_email, password, rnd)
    IN  IF got.ret # None
        THEN [registered EXCEPT !.out = got.out \o registered.out]
        ELSE [S |-> got.S, ret |-> FALSE, out |-> got.out]

\* Server.change_email
Server_change_email(S, email, new_email, password, rnd) ==
    LET got == Server_get_user(S, email)
        user == got.ret[1]
        deleted == [got.S EXCEPT
                      !.database = Database_delete_user(S.database, user.email_hashed)]
        registered == Server_register(deleted, new_email, password, rnd)
    IN  IF got.ret # None
        THEN [registered EXCEPT !.out = got.out \o registered.out]
        ELSE [S |-> got.S, ret |-> FALSE, out |-> got.out]

\* Server.delete_user
Server_delete_user(S, email) ==
    LET got == Server_get_user(S, email)
        user == got.ret[1]
    IN  IF got.ret # None
        THEN [S |-> [got.S EXCEPT
                       !.database = Database_delete_user(S.database, user.email_hashed)],
              ret |-> TRUE, out |-> got.out]
        ELSE [S |-> got.S, ret |-> FALSE, out |-> got.out]

\* Server.update_user: get_user is given user.email_hashed as its first
\* argument, the e-mail, and so looks up the hash of the hash
Server_update_user(S, user) ==
    LET got == Server_get_user(S, ToString(user.email_hashed))
    IN  IF got.ret # None
        THEN [S |-> [got.S EXCEPT
                       !.database = Database_update_user(S.database, user)],
              ret |-> TRUE, out |-> got.out]
        ELSE [S |-> got.S, ret |-> FALSE, out |-> got.out]

\* the orders in which SELECT * FROM users may return the rows
RowOrders(db) ==
    {rows \in [1..Cardinality(DOMAIN db) -> DOMAIN db] :
        \A i \in DOMAIN rows, j \in DOMAIN rows : rows[i] = rows[j] => i = j}

\* Server.__decrypt_user: the text of one user, or the exception of a decrypt
Server_decrypt_user(S, user_) ==
    LET user_id == AES256_decrypt(S.aes_cipher, user_.user_id_encrypted)
        email == AES256_decrypt(S.aes_cipher, user_.email_encrypted)
    IN  IF ~user_id.ok THEN user_id
        ELSE IF ~email.ok THEN email
        ELSE [ok |-> TRUE,
              value |-> [email_hashed |-> user_.email_hashed,
                         user_id_encrypted |-> user_id.value,
                         email_encrypted |-> email.value,
                         password_hashed |-> user_.password_hashed,
                         metadata |-> user_.metadata]]

\* the loop of Server.list_database over the users left to print: what it
\* prints, and whether it ran to its end
RECURSIVE print_decrypted(_, _, _)
print_decrypted(S, db, rows) ==
    IF Len(rows) = 0 THEN [out |-> <<>>, ok |-> TRUE]
    ELSE LET text == Server_decrypt_user(S, db[Head(rows)])
             rest == print_decrypted(S, db, Tail(rows))
         IN  IF ~text.ok THEN [out |-> <<>>, ok |-> FALSE]
             ELSE [out |-> <<[user |-> text.value]>> \o rest.out, ok |-> rest.ok]

\* Server.list_database(decrypt), the rows read in the order rows; ret is
\* whether it returned, FALSE when an exception left it
Server_list_database(S, decrypt, rows) ==
    LET counted == [S EXCEPT !.USER_NUMBER = S.USER_NUMBER + Len(rows)]
        printed == print_decrypted(S, S.database, rows)
    IN  IF decrypt
        THEN [S |-> counted, ret |-> printed.ok,
              out |-> <<[line |-> "DATABASE (decrypted)"]>> \o printed.out
                      \o (IF printed.ok THEN <<[line |-> "end"]>> ELSE <<>>)]
        ELSE [S |-> counted, ret |-> TRUE,
              out |-> <<[line |-> "DATABASE"]>>
                      \o [i \in 1..Len(rows) |-> [user |-> S.database[rows[i]]]]
                      \o <<[line |-> "end"]>>]

\* a faulty __init__: opens the store with reset=True
Server_init_resets(db, argon, v) ==
    [database |-> <<>>, USER_NUMBER |-> 0, aes_cipher |-> AES256,
     argon_hasher |-> argon, verbose |-> v]

\* Server.__init__ in a new process, on the SQLite file as it is
Server_init(db, argon, v) ==
    [database |-> db, USER_NUMBER |-> 0, aes_cipher |-> AES256,
     argon_hasher |-> argon, verbose |-> v]

(***************************************************************************)
(* Server_Unencrypted.py.  The same methods on a store of its own, with    *)
(* the e-mail as the key and the password as it is; the server is the      *)
(* record of its store, the USER_NUMBER of its process and verbose.        *)
(***************************************************************************)
\* Server_Unencrypted.register
Server_Unencrypted_register(U, email, password) ==
    LET email_hashed_ == email
        metadata_ == join(<<get_package_versions>>, <<";">>)
        user_ == User(email_hashed_, email, ToString(U.USER_NUMBER), password, metadata_)
        added == Database_add_user(U.database, user_)
    IN  IF is_user_in_database(U.database, email_hashed_)
        THEN [S |-> U, ret |-> FALSE,
              out |-> IF U.verbose THEN <<"E-mail is already in the database!">>
                      ELSE <<>>]
        ELSE [S |-> [U EXCEPT !.database = added.db,
                              !.USER_NUMBER = U.USER_NUMBER + 1],
              ret |-> added.ok, out |-> <<>>]

\* Server_Unencrypted.get_user
Server_Unencrypted_get_user(U, email) ==
    LET email_hashed_ == email
    IN  IF ~is_user_in_database(U.database, email_hashed_)
        THEN [S |-> U, ret |-> None,
              out |-> IF U.verbose THEN <<"E-mail is not in the database!">>
                      ELSE <<>>]
        ELSE [S |-> [U EXCEPT !.USER_NUMBER = U.USER_NUMBER + 1],
              ret |-> Database_get_user(U.database, email_hashed_), out |-> <<>>]

\* a faulty login_attempt: every password is accepted for a known e-mail
Server_Unencrypted_login_attempt_any(U, email, password) ==
    LET got == Server_Unencrypted_get_user(U, email)
    IN  [S |-> got.S, ret |-> got.ret # None, out |-> got.out]

\* Server_Unencrypted.login_attempt
Server_Unencrypted_login_attempt(U, email, password) ==
    LET got == Server_Unencrypted_get_user(U, email)
    IN  [S |-> got.S,
         ret |-> got.ret # None /\ got.ret[1].password_hashed = password,
         out |-> got.out]

\* Server_Unencrypted.change_password
Server_Unencrypted_change_password(U, email, password) ==
    LET got == Server_Unencrypted_get_user(U, email)
        changed == [got.ret[1] EXCEPT !.password_hashed = password]
    IN  IF got.ret # None
        THEN [S |-> [got.S EXCEPT
                       !.database = Database_update_user(U.database, changed)],
              ret |-> TRUE, out |-> got.out]
        ELSE [S |-> got.S, ret |-> FALSE, out |-> got.out]

\* Server_Unencrypted.change_email
Server_Unencrypted_change_email(U, email, new_email, password) ==
    LET got == Server_Unencrypted_get_user(U, email)
        deleted == [got.S EXCEPT
                      !.database = Database_delete_user(U.database,
                                                        got.ret[1].email_hashed)]
        registered == Server_Unencrypted_register(deleted, new_email, password)
    IN  IF got.ret # None
        THEN [registered EXCEPT !.out = got.out \o registered.out]
        ELSE [S |-> got.S, ret |-> FALSE, out |-> got.out]

\* Server_Unencrypted.delete_user
Server_Unencrypted_delete_user(U, email) ==
    LET got == Server_Unencrypted_get_user(U, email)
    IN  IF got.ret # None
        THEN [S |-> [got.S EXCEPT
                       !.database = Database_delete_user(U.database,
                                                         got.ret[1].email_hashed)],
              ret |-> TRUE, out |-> got.out]
        ELSE [S |-> got.S, ret |-> FALSE, out |-> got.out]

(***************************************************************************)
(* The calls as actions of one server process at a time.                   *)
(***************************************************************************)
\* the server becomes r.S, having returned r.ret and printed r.out from the call op
Becomes(r, op) ==
    /\ r.S.USER_NUMBER <= MaxUserNumber
    /\ database' = r.S.database
    /\ USER_NUMBER' = r.S.USER_NUMBER
    /\ aes_cipher' = r.S.aes_cipher
    /\ argon_hasher' = r.S.argon_hasher
    /\ verbose' = r.S.verbose
    /\ last' = [op |-> op, ret |-> r.ret, out |-> r.out,
                wrote |-> r.S.database # database]
    /\ UNCHANGED <<calls, unit>>

\* f with key k set to v, or removed
Put(f, k, v) == [x \in DOMAIN f \cup {k} |-> IF x = k THEN v ELSE f[x]]
Drop(f, k) == [x \in DOMAIN f \ {k} |-> f[x]]

register(email, password) ==
    \E rnd \in Draws(self) :
        LET r == Server_register(self, email, password, rnd)
        IN  /\ Becomes(r, "register")
            /\ password_of' = IF r.ret
                              THEN Put(password_of, HMAC_hash(HMAC_KEY, email), password)
                              ELSE password_of

login_attempt(email, password) ==
    \E rnd \in Draws(self) :
        /\ Becomes(Server_login_attempt(self, email, password, rnd), "login_attempt")
        /\ UNCHANGED password_of

change_password(email, password) ==
    \E rnd \in Draws(self) :
        LET r == Server_change_password(self, email, password, rnd)
        IN  /\ Becomes(r, "change_password")
            /\ password_of' = IF r.ret
                              THEN Put(password_of, HMAC_hash(HMAC_KEY, email), password)
                              ELSE password_of

change_email(email, new_email, password) ==
    \E rnd \in Draws(self) :
        LET r == Server_change_email(self, email, new_email, password, rnd)
            gone == Drop(password_of, HMAC_hash(HMAC_KEY, email))
        IN  /\ Becomes(r, "change_email")
            /\ password_of' =
                 IF r.ret THEN Put(gone, HMAC_hash(HMAC_KEY, new_email), password)
                 ELSE IF is_user_in_database(database, HMAC_hash(HMAC_KEY, email))
                      THEN gone ELSE password_of

get_user(email) ==
    LET r == Server_get_user(self, email)
    IN  /\ Becomes([r EXCEPT !.ret = (r.ret # None)], "get_user")
        /\ UNCHANGED password_of

delete_user(email) ==
    /\ Becomes(Server_delete_user(self, email), "delete_user")
    /\ password_of' = Drop(password_of, HMAC_hash(HMAC_KEY, email))

\* the process ends and a new one constructs Server(verbose=v)
Restart(argon, v) ==
    /\ Becomes([S |-> Server_init(database, argon, v), ret |-> TRUE, out |-> <<>>],
               "__init__")
    /\ UNCHANGED password_of

Init ==
    /\ database = <<>>
    /\ USER_NUMBER = 0
    /\ aes_cipher = AES256
    /\ argon_hasher \in ArgonParamSets
    /\ verbose = FALSE
    /\ last = [op |-> "__init__", ret |-> TRUE, out |-> <<>>, wrote |-> FALSE]
    /\ password_of = <<>>
    /\ calls = <<>>
    /\ unit = <<>>

Next ==
    \/ \E e \in Emails, p \in Passwords : register(e, p)
    \/ \E e \in Emails, p \in Passwords : login_attempt(e, p)
    \/ \E e \in Emails, p \in Passwords : change_password(e, p)
    \/ \E e \in Emails, n \in Emails, p \in Passwords : change_email(e, n, p)
    \/ \E e \in Emails : get_user(e)
    \/ \E e \in Emails : delete_user(e)
    \/ \E a \in ArgonParamSets : Restart(a, verbose)

\* Server() as the tests construct it: verbose=False
Spec == Init /\ [][Next]_vars

\* Server(verbose=True)
InitVerbose ==
    /\ database = <<>>
    /\ USER_NUMBER = 0
    /\ aes_cipher = AES256
    /\ argon_hasher \in ArgonParamSets
    /\ verbose = TRUE
    /\ last = [op |-> "__init__", ret |-> TRUE, out |-> <<>>, wrote |-> FALSE]
    /\ password_of = <<>>
    /\ calls = <<>>
    /\ unit = <<>>

SpecVerbose == InitVerbose /\ [][Next]_vars

\* the deployments of the vault: the one of the source, and one with a
\* stronger key derivation and a stronger hash
Deployments ==
    {[aes_cipher |-> AES256, argon_hasher |-> Argon2Metadata],
     [aes_cipher |-> [AES256 EXCEPT !.kdf_iterations = 200000],
      argon_hasher |-> [Argon2Metadata EXCEPT !.time_cost = 2]]}

\* the process ends and the deployment d constructs its Server on the same
\* SQLite file
Redeploy(d) ==
    /\ Becomes([S |-> [Server_init(database, d.argon_hasher, verbose)
                         EXCEPT !.aes_cipher = d.aes_cipher],
                ret |-> TRUE, out |-> <<>>], "__init__")
    /\ UNCHANGED password_of

InitDeploy ==
    /\ database = <<>>
    /\ USER_NUMBER = 0
    /\ \E d \in Deployments :
          aes_cipher = d.aes_cipher /\ argon_hasher = d.argon_hasher
    /\ verbose = FALSE
    /\ last = [op |-> "__init__", ret |-> TRUE, out |-> <<>>, wrote |-> FALSE]
    /\ password_of = <<>>
    /\ calls = <<>>
    /\ unit = <<>>

NextDeploy ==
    \/ \E e \in Emails, p \in Passwords : register(e, p)
    \/ \E e \in Emails, p \in Passwords : login_attempt(e, p)
    \/ \E e \in Emails, p \in Passwords : change_password(e, p)
    \/ \E e \in Emails, n \in Emails, p \in Passwords : change_email(e, n, p)
    \/ \E e \in Emails : get_user(e)
    \/ \E e \in Emails : delete_user(e)
    \/ \E d \in Deployments : Redeploy(d)

\* successive deployments on one store
SpecDeploy == InitDeploy /\ [][NextDeploy]_vars

(***************************************************************************)
(* The administrator's listing, on a store that successive deployments     *)
(* have written.                                                           *)
(***************************************************************************)
list_database(decrypt) ==
    \E rows \in RowOrders(database) :
        /\ Becomes(Server_list_database(self, decrypt, rows), "list_database")
        /\ UNCHANGED password_of

NextList ==
    \/ \E e \in Emails, p \in Passwords : register(e, p)
    \/ \E e \in Emails : delete_user(e)
    \/ \E d \in Deployments : Redeploy(d)
    \/ \E decrypt \in BOOLEAN : list_database(decrypt)

SpecList == InitDeploy /\ [][NextList]_vars

(***************************************************************************)
(* A Server and a Server_Unencrypted side by side, each on a store of its  *)
(* own that starts empty, given the same calls with the same arguments.    *)
(* unit holds the Server_Unencrypted, S, and what its last call returned.  *)
(***************************************************************************)
InitBoth ==
    /\ database = <<>>
    /\ USER_NUMBER = 0
    /\ aes_cipher = AES256
    /\ argon_hasher \in ArgonParamSets
    /\ verbose = FALSE
    /\ last = [op |-> "__init__", ret |-> TRUE, out |-> <<>>, wrote |-> FALSE]
    /\ password_of = <<>>
    /\ calls = <<>>
    /\ unit = [S |-> [database |-> <<>>, USER_NUMBER |-> 0, verbose |-> FALSE],
               ret |-> TRUE, out |-> <<>>]

\* the Server becomes r.S and the Server_Unencrypted u.S by the call op
BothBecome(r, u, op) ==
    /\ r.S.USER_NUMBER <= MaxUserNumber
    /\ database' = r.S.database
    /\ USER_NUMBER' = r.S.USER_NUMBER
    /\ aes_cipher' = r.S.aes_cipher
    /\ argon_hasher' = r.S.argon_hasher
    /\ verbose' = r.S.verbose
    /\ last' = [op |-> op, ret |-> r.ret, out |-> r.out,
                wrote |-> r.S.database # database]
    /\ unit' = u
    /\ UNCHANGED calls

both_register(email, password) ==
    \E rnd \in Draws(self) :
       /\ BothBecome(Server_register(self, email, password, rnd),
                     Server_Unencrypted_register(unit.S, email, password), "register")
       /\ UNCHANGED password_of

both_login_attempt(email, password) ==
    \E rnd \in Draws(self) :
       /\ BothBecome(Server_login_attempt(self, email, password, rnd),
                     Server_Unencrypted_login_attempt(unit.S, email, password),
                     "login_attempt")
       /\ UNCHANGED password_of

both_change_password(email, password) ==
    \E rnd \in Draws(self) :
       /\ BothBecome(Server_change_password(self, email, password, rnd),
                     Server_Unencrypted_change_password(unit.S, email, password),
                     "change_password")
       /\ UNCHANGED password_of

both_change_email(email, new_email, password) ==
    \E rnd \in Draws(self) :
       /\ BothBecome(Server_change_email(self, email, new_email, password, rnd),
                     Server_Unencrypted_change_email(unit.S, email, new_email,
                                                     password),
                     "change_email")
       /\ UNCHANGED password_of

both_delete_user(email) ==
    /\ BothBecome(Server_delete_user(self, email),
                  Server_Unencrypted_delete_user(unit.S, email), "delete_user")
    /\ UNCHANGED password_of

\* both processes end and new ones construct the two servers on their stores
both_restart ==
    /\ BothBecome([S |-> Server_init(database, argon_hasher, verbose), ret |-> TRUE,
                   out |-> <<>>],
                  [S |-> [unit.S EXCEPT !.USER_NUMBER = 0], ret |-> TRUE,
                   out |-> <<>>],
                  "__init__")
    /\ UNCHANGED password_of

NextBoth ==
    \/ \E e \in Emails, p \in Passwords : both_register(e, p)
    \/ \E e \in Emails, p \in Passwords : both_login_attempt(e, p)
    \/ \E e \in Emails, p \in Passwords : both_change_password(e, p)
    \/ \E e \in Emails, n \in Emails, p \in Passwords : both_change_email(e, n, p)
    \/ \E e \in Emails : both_delete_user(e)
    \/ both_restart

SpecBoth == InitBoth /\ [][NextBoth]_vars

(***************************************************************************)
(* Concurrent calls.  A sqlite3 connection serves only the thread that     *)
(* opened it, so concurrent calls come from Server objects of different    *)
(* processes on one SQLite file: each has its own attributes and its own   *)
(* User.USER_NUMBER, and they share the users table.  Every execute and    *)
(* commit of SQLite_Database.py is one atomic step; each process makes one *)
(* call.                                                                   *)
(***************************************************************************)
Procs == {1, 2}

\* a store a server has left: empty, or with alice registered
ConcStores ==
    {<<>>} \cup
    {Server_register(Server_init(<<>>, Argon2Metadata, FALSE), "alice", <<"p">>, rnd)
        .S.database : rnd \in Draws(Server_init(<<>>, Argon2Metadata, FALSE))}

\* the Server of process p, on the shared table
ServerOf(p) ==
    [database |-> database, USER_NUMBER |-> calls[p].USER_NUMBER,
     aes_cipher |-> calls[p].aes_cipher, argon_hasher |-> calls[p].argon_hasher,
     verbose |-> calls[p].verbose]

InitConc ==
    /\ database \in ConcStores
    /\ USER_NUMBER = 0
    /\ aes_cipher = AES256
    /\ argon_hasher = Argon2Metadata
    /\ verbose = FALSE
    /\ last = [op |-> "__init__", ret |-> TRUE, out |-> <<>>, wrote |-> FALSE]
    /\ password_of = <<>>
    /\ calls = [p \in Procs |->
                  [pc |-> "idle", op |-> "", email |-> "", password |-> <<>>,
                   USER_NUMBER |-> 0, aes_cipher |-> AES256,
                   argon_hasher |-> Argon2Metadata, verbose |-> FALSE,
                   began_absent |-> FALSE, user_ |-> None, ret |-> <<>>, by |-> ""]]
    /\ unit = <<>>

\* process p calls register(email, password)
call_register(p, email, password) ==
    /\ calls[p].pc = "idle"
    /\ calls' = [calls EXCEPT
                   ![p].pc = "register_check", ![p].op = "register",
                   ![p].email = email, ![p].password = password,
                   ![p].began_absent =
                      ~is_user_in_database(database, HMAC_hash(HMAC_KEY, email))]
    /\ UNCHANGED <<database, USER_NUMBER, aes_cipher, argon_hasher, verbose, last,
                   password_of, unit>>

\* Server.register, lines 45-49: the existence check
register_check(p) ==
    /\ calls[p].pc = "register_check"
    /\ calls' =
         IF is_user_in_database(database, HMAC_hash(HMAC_KEY, calls[p].email))
         THEN [calls EXCEPT ![p].pc = "done", ![p].ret = <<FALSE>>,
                            ![p].by = "is_user_in_database"]
         ELSE [calls EXCEPT ![p].pc = "register_user"]
    /\ UNCHANGED <<database, USER_NUMBER, aes_cipher, argon_hasher, verbose, last,
                   password_of, unit>>

\* Server.register, lines 50-51: the User is built
register_user(p) ==
    /\ calls[p].pc = "register_user"
    /\ \E rnd \in Draws(ServerOf(p)) :
         calls' = [calls EXCEPT
                     ![p].pc = "register_add_user",
                     ![p].user_ = <<Server_register_user(ServerOf(p), calls[p].email,
                                                         calls[p].password, rnd)>>,
                     ![p].USER_NUMBER = calls[p].USER_NUMBER + 1]
    /\ UNCHANGED <<database, USER_NUMBER, aes_cipher, argon_hasher, verbose, last,
                   password_of, unit>>

\* Server.register, line 52: add_user and the return
register_add_user(p) ==
    /\ calls[p].pc = "register_add_user"
    /\ LET added == Database_add_user(database, calls[p].user_[1])
       IN  /\ database' = added.db
           /\ calls' = [calls EXCEPT ![p].pc = "done", ![p].ret = <<added.ok>>,
                                     ![p].by = "add_user"]
    /\ UNCHANGED <<USER_NUMBER, aes_cipher, argon_hasher, verbose, last, password_of,
                   unit>>

NextConc ==
    \/ \E p \in Procs, e \in Emails, pw \in Passwords : call_register(p, e, pw)
    \/ \E p \in Procs : register_check(p)
    \/ \E p \in Procs : register_user(p)
    \/ \E p \in Procs : register_add_user(p)

SpecConc == InitConc /\ [][NextConc]_vars

(***************************************************************************)
(* Concurrent calls of every kind.  Two processes, each with its own       *)
(* Server on one SQLite file, make one call each; a call advances by its   *)
(* statements on the store: is_user_in_database and Database.get_user      *)
(* inside Server.get_user, then the call's update_user or delete_user, and *)
(* for change_email the statements of register after that.  What a call    *)
(* computes between two statements happens with the earlier one.  The      *)
(* field missed records that the UPDATE of a call matched no row.          *)
(***************************************************************************)
\* the hasher of the racing processes: stronger than the one the stored
\* records were hashed with, so that a login rehashes
RaceHasher == [Argon2Metadata EXCEPT !.time_cost = 2]

InitRace ==
    /\ database \in ConcStores
    /\ USER_NUMBER = 0
    /\ aes_cipher = AES256
    /\ argon_hasher = RaceHasher
    /\ verbose = FALSE
    /\ last = [op |-> "__init__", ret |-> TRUE, out |-> <<>>, wrote |-> FALSE]
    /\ password_of = <<>>
    /\ calls = [p \in Procs |->
                  [pc |-> "idle", op |-> "", email |-> "", password |-> <<>>,
                   new_email |-> "", USER_NUMBER |-> 0, aes_cipher |-> AES256,
                   argon_hasher |-> RaceHasher, verbose |-> FALSE,
                   began_absent |-> FALSE, user_ |-> None, ret |-> <<>>, by |-> "",
                   missed |-> FALSE]]
    /\ unit = <<>>

\* process p calls op(email, ...), which begins with Server.get_user(email)
call_get_user(p, op, email, new_email, password) ==
    /\ calls[p].pc = "idle"
    /\ calls' = [calls EXCEPT
                   ![p].pc = "get_user_check", ![p].op = op, ![p].email = email,
                   ![p].new_email = new_email, ![p].password = password]
    /\ UNCHANGED <<database, USER_NUMBER, aes_cipher, argon_hasher, verbose, last,
                   password_of, unit>>

\* Server.get_user, line 90: is_user_in_database
get_user_check(p) ==
    /\ calls[p].pc = "get_user_check"
    /\ calls' =
         IF is_user_in_database(database, HMAC_hash(HMAC_KEY, calls[p].email))
         THEN [calls EXCEPT ![p].pc = "get_user_read"]
         ELSE [calls EXCEPT ![p].pc = "done", ![p].ret = <<FALSE>>,
                            ![p].by = "is_user_in_database"]
    /\ UNCHANGED <<database, USER_NUMBER, aes_cipher, argon_hasher, verbose, last,
                   password_of, unit>>

\* Server.get_user, line 94: Database.get_user, and what the caller does with
\* the user up to its next statement on the store
get_user_read(p) ==
    /\ calls[p].pc = "get_user_read"
    /\ LET k == HMAC_hash(HMAC_KEY, calls[p].email)
           got == Database_get_user(database, k)
           attempt == Argon2id_verify(calls[p].argon_hasher, got[1].password_hashed,
                                      calls[p].password, k)
       IN  calls' =
             IF got = None
             THEN [calls EXCEPT ![p].pc = "done", ![p].ret = <<FALSE>>,
                                ![p].by = "get_user"]
             ELSE IF calls[p].op = "login_attempt"
                     /\ ~(attempt /\ Argon2id_needs_rehash(calls[p].argon_hasher,
                                                           got[1].password_hashed))
             THEN [calls EXCEPT ![p].pc = "done", ![p].ret = <<attempt>>,
                                ![p].by = "verify", ![p].user_ = got,
                                ![p].USER_NUMBER = calls[p].USER_NUMBER + 1]
             ELSE [calls EXCEPT ![p].pc = calls[p].op, ![p].user_ = got,
                                ![p].USER_NUMBER = calls[p].USER_NUMBER + 1]
    /\ UNCHANGED <<database, USER_NUMBER, aes_cipher, argon_hasher, verbose, last,
                   password_of, unit>>

\* Server.login_attempt, lines 61-63: the rehash, the metadata, update_user
login_attempt_update_user(p) ==
    /\ calls[p].pc = "login_attempt"
    /\ \E rnd \in Draws(ServerOf(p)) :
         LET user == calls[p].user_[1]
             rehashed ==
               [user EXCEPT
                  !.password_hashed = Argon2id_hash(calls[p].argon_hasher,
                                                    calls[p].password,
                                                    HMAC_hash(HMAC_KEY, calls[p].email),
                                                    rnd.argon_salt),
                  !.metadata = Server_get_metadata(ServerOf(p))]
         IN  database' = Database_update_user(database, rehashed)
    /\ calls' = [calls EXCEPT
                   ![p].pc = "done", ![p].ret = <<TRUE>>, ![p].by = "update_user",
                   ![p].missed = ~is_user_in_database(database,
                                                      calls[p].user_[1].email_hashed)]
    /\ UNCHANGED <<USER_NUMBER, aes_cipher, argon_hasher, verbose, last, password_of,
                   unit>>

\* Server.change_password, lines 70-71: the hash and update_user
change_password_update_user(p) ==
    /\ calls[p].pc = "change_password"
    /\ \E rnd \in Draws(ServerOf(p)) :
         LET user == calls[p].user_[1]
             changed ==
               [user EXCEPT
                  !.password_hashed = Argon2id_hash(calls[p].argon_hasher,
                                                    calls[p].password,
                                                    user.email_hashed,
                                                    rnd.argon_salt)]
         IN  database' = Database_update_user(database, changed)
    /\ calls' = [calls EXCEPT
                   ![p].pc = "done", ![p].ret = <<TRUE>>, ![p].by = "update_user",
                   ![p].missed = ~is_user_in_database(database,
                                                      calls[p].user_[1].email_hashed)]
    /\ UNCHANGED <<USER_NUMBER, aes_cipher, argon_hasher, verbose, last, password_of,
                   unit>>

\* Server.delete_user, line 105: Database.delete_user
delete_user_delete_user(p) ==
    /\ calls[p].pc = "delete_user"
    /\ database' = Database_delete_user(database, calls[p].user_[1].email_hashed)
    /\ calls' = [calls EXCEPT ![p].pc = "done", ![p].ret = <<TRUE>>,
                              ![p].by = "delete_user"]
    /\ UNCHANGED <<USER_NUMBER, aes_cipher, argon_hasher, verbose, last, password_of,
                   unit>>

\* Server.change_email, lines 79-80: Database.delete_user, then register begins
change_email_delete_user(p) ==
    /\ calls[p].pc = "change_email"
    /\ database' = Database_delete_user(database, calls[p].user_[1].email_hashed)
    /\ calls' = [calls EXCEPT ![p].pc = "register_check",
                              ![p].email = calls[p].new_email,
                              ![p].by = "delete_user"]
    /\ UNCHANGED <<USER_NUMBER, aes_cipher, argon_hasher, verbose, last, password_of,
                   unit>>

\* process p calls update_user with a User it holds for email, and the call
\* runs: its one statement on the store is the is_user_in_database of get_user
update_user(p, email, password) ==
    /\ calls[p].pc = "idle"
    /\ \E rnd \in Draws(ServerOf(p)) :
         LET user == Server_register_user(ServerOf(p), email, password, rnd)
             r == Server_update_user(ServerOf(p), user)
         IN  /\ database' = r.S.database
             /\ calls' = [calls EXCEPT
                            ![p].pc = "done", ![p].op = "update_user",
                            ![p].email = email, ![p].password = password,
                            ![p].user_ = <<user>>, ![p].ret = <<r.ret>>,
                            ![p].by = "update_user",
                            ![p].USER_NUMBER = r.S.USER_NUMBER + 1]
    /\ UNCHANGED <<USER_NUMBER, aes_cipher, argon_hasher, verbose, last, password_of,
                   unit>>

NextRace ==
    \/ \E p \in Procs, e \in Emails, pw \in Passwords : call_register(p, e, pw)
    \/ \E p \in Procs, e \in Emails, pw \in Passwords :
          \E op \in {"login_attempt", "change_password"} :
             call_get_user(p, op, e, "", pw)
    \/ \E p \in Procs, e \in Emails : call_get_user(p, "delete_user", e, "", <<>>)
    \/ \E p \in Procs, e \in Emails, n \in Emails, pw \in Passwords :
          call_get_user(p, "change_email", e, n, pw)
    \/ \E p \in Procs : get_user_check(p)
    \/ \E p \in Procs : get_user_read(p)
    \/ \E p \in Procs : login_attempt_update_user(p)
    \/ \E p \in Procs : change_password_update_user(p)
    \/ \E p \in Procs : delete_user_delete_user(p)
    \/ \E p \in Procs : change_email_delete_user(p)
    \/ \E p \in Procs : register_check(p)
    \/ \E p \in Procs : register_user(p)
    \/ \E p \in Procs : register_add_user(p)
    \/ \E p \in Procs, e \in Emails, pw \in Passwords : update_user(p, e, pw)

SpecRace == InitRace /\ [][NextRace]_vars

(***************************************************************************)
(* AES256 on its own: a cipher object encrypts a string, the text travels  *)
(* (and may come back changed), and the same object decrypts what arrives. *)
(***************************************************************************)
\* the cipher objects: the default one, and others the constructor accepts
Ciphers ==
    {AES256, [AES256 EXCEPT !.tag_size = 12],
     [AES256 EXCEPT !.salt_size = 8, !.nonce_size = 16]}

Plaintexts == {<<>>, <<"a">>, <<"eacute">>, <<"a", "eacute">>}

\* the byte values os.urandom fills with when a cipher is used on its own
CipherBytes == {0, 1}

\* the texts a text t may come back as: one byte changed, cut short, with a
\* character from outside the base64 alphabet put in, or ending in characters
\* that spell no byte
Alterations(t) ==
    {[t EXCEPT ![i] = [b64 |-> [byte |-> 255]]] : i \in 1..Len(t)}
    \cup {SubSeq(t, 1, n) : n \in 0..(Len(t) - 1)}
    \cup {SubSeq(t, 1, i) \o <<[other |-> "!"]>> \o SubSeq(t, i + 1, Len(t)) :
            i \in 0..Len(t)}
    \cup {t \o <<[loose |-> "A"]>>}

InitCipher ==
    /\ database = <<>>
    /\ USER_NUMBER = 0
    /\ aes_cipher \in Ciphers
    /\ argon_hasher = Argon2Metadata
    /\ verbose = FALSE
    /\ last = [op |-> "__init__", ret |-> TRUE, out |-> <<>>, wrote |-> FALSE]
    /\ password_of = <<>>
    /\ calls = <<>>
    /\ unit = [pc |-> "new", plaintext |-> <<>>, blob |-> <<>>, text |-> <<>>,
               result |-> <<>>]

\* aes_cipher.encrypt(plaintext)
encrypt(plaintext) ==
    /\ unit.pc = "new"
    /\ \E salt \in urandom(aes_cipher.salt_size, CipherBytes),
          nonce \in urandom(aes_cipher.nonce_size, CipherBytes) :
         LET blob == AES256_encrypt(aes_cipher, plaintext, salt, nonce)
         IN  unit' = [unit EXCEPT !.pc = "encrypted", !.plaintext = plaintext,
                                  !.blob = blob, !.text = blob]
    /\ UNCHANGED <<database, USER_NUMBER, aes_cipher, argon_hasher, verbose, last,
                   password_of, calls>>

\* the text comes back changed
alter ==
    /\ unit.pc = "encrypted"
    /\ \E t \in Alterations(unit.blob) :
         unit' = [unit EXCEPT !.pc = "altered", !.text = t]
    /\ UNCHANGED <<database, USER_NUMBER, aes_cipher, argon_hasher, verbose, last,
                   password_of, calls>>

\* aes_cipher.decrypt(text)
decrypt ==
    /\ unit.pc \in {"encrypted", "altered"}
    /\ unit' = [unit EXCEPT !.pc = "decrypted",
                            !.result = <<AES256_decrypt(aes_cipher, unit.text)>>]
    /\ UNCHANGED <<database, USER_NUMBER, aes_cipher, argon_hasher, verbose, last,
                   password_of, calls>>

NextCipher ==
    \/ \E s \in Plaintexts : encrypt(s)
    \/ alter
    \/ decrypt

SpecCipher == InitCipher /\ [][NextCipher]_vars

(***************************************************************************)
(* Argon2id on its own: a hasher object hashes a password under a          *)
(* per-identity salt, the hash is stored (and may be read back damaged or  *)
(* replaced by a string of another system), and a hasher object, the same  *)
(* or one built with other parameters, verifies it or asks needs_rehash.   *)
(***************************************************************************)
\* the parameter sets a hasher object may be built with
Hashers ==
    {Argon2Metadata, [Argon2Metadata EXCEPT !.time_cost = 2],
     [Argon2Metadata EXCEPT !.memory_cost = 32768],
     [Argon2Metadata EXCEPT !.parallelism = 2],
     [Argon2Metadata EXCEPT !.hash_len = 16],
     [Argon2Metadata EXCEPT !.salt_len = 8],
     [Argon2Metadata EXCEPT !.type_ = "I"]}

UnitPasswords == Passwords \cup {<<>>, <<"eacute">>}

VariableSalts == {<<"s">>, <<"s", "p">>}

\* the byte values Argon2's salt generator fills with when a hasher is used
\* on its own
HasherBytes == {0, 1}

\* strings that are not the hash h: an empty string, free text, the hash of
\* another scheme, h cut before its digest, and h with another salt
NotTheHash(h) ==
    {[text |-> ""], [text |-> "not a hash"], [bcrypt |-> "$2b$12$"],
     [f \in DOMAIN h \ {"hash"} |-> h[f]],
     [h EXCEPT !.salt = [i \in 1..Len(h.salt) |-> [byte |-> 255]]]}

InitHasher ==
    /\ database = <<>>
    /\ USER_NUMBER = 0
    /\ aes_cipher = AES256
    /\ argon_hasher \in Hashers
    /\ verbose = FALSE
    /\ last = [op |-> "__init__", ret |-> TRUE, out |-> <<>>, wrote |-> FALSE]
    /\ password_of = <<>>
    /\ calls = <<>>
    /\ unit = [pc |-> "new", data |-> <<>>, variable_salt |-> <<>>,
               hashed_by |-> argon_hasher, returned |-> <<>>, data_hashed |-> <<>>,
               asked |-> <<>>, result |-> <<>>]

\* argon_hasher.hash(data, variable_salt)
hash(data, variable_salt) ==
    /\ unit.pc = "new"
    /\ \E salt \in urandom(argon_hasher.salt_len, HasherBytes) :
         LET h == Argon2id_hash(argon_hasher, data, variable_salt, salt)
         IN  unit' = [unit EXCEPT !.pc = "hashed", !.data = data,
                                  !.variable_salt = variable_salt,
                                  !.hashed_by = argon_hasher,
                                  !.returned = h, !.data_hashed = h]
    /\ UNCHANGED <<database, USER_NUMBER, aes_cipher, argon_hasher, verbose, last,
                   password_of, calls>>

\* the stored string is read back as something else
damage ==
    /\ unit.pc = "hashed"
    /\ unit.data_hashed = unit.returned
    /\ \E h \in NotTheHash(unit.returned) :
         unit' = [unit EXCEPT !.data_hashed = h]
    /\ UNCHANGED <<database, USER_NUMBER, aes_cipher, argon_hasher, verbose, last,
                   password_of, calls>>

\* Argon2id(pepper, metadata_str): a hasher object with the parameters m
Argon2id_init(m) ==
    /\ unit.pc = "hashed"
    /\ argon_hasher' = m
    /\ UNCHANGED <<database, USER_NUMBER, aes_cipher, verbose, last, password_of,
                   calls, unit>>

\* argon_hasher.verify(data_hashed, data, variable_salt)
verify(data, variable_salt) ==
    /\ unit.pc = "hashed"
    /\ unit' = [unit EXCEPT
                  !.pc = "verified",
                  !.asked = [data |-> data, variable_salt |-> variable_salt],
                  !.result = <<Argon2id_verify(argon_hasher, unit.data_hashed, data,
                                               variable_salt)>>]
    /\ UNCHANGED <<database, USER_NUMBER, aes_cipher, argon_hasher, verbose, last,
                   password_of, calls>>

\* argon_hasher.needs_rehash(data_hashed)
needs_rehash ==
    /\ unit.pc = "hashed"
    /\ unit' = [unit EXCEPT
                  !.pc = "checked",
                  !.result = <<Argon2id_needs_rehash(argon_hasher, unit.data_hashed)>>]
    /\ UNCHANGED <<database, USER_NUMBER, aes_cipher, argon_hasher, verbose, last,
                   password_of, calls>>

NextHasher ==
    \/ \E p \in UnitPasswords, s \in VariableSalts : hash(p, s)
    \/ damage
    \/ \E m \in Hashers : Argon2id_init(m)
    \/ \E p \in UnitPasswords, s \in VariableSalts : verify(p, s)
    \/ needs_rehash

SpecHasher == InitHasher /\ [][NextHasher]_vars

(***************************************************************************)
(* Argon2id built from a metadata string: a hasher object hashes, and a    *)
(* second object is built from a string, the get_metadata() of a hasher or *)
(* a string that is none, and is asked to verify and for needs_rehash.     *)
(***************************************************************************)
\* strings that are not the metadata string s: s without its last field,
\* with a field more, the empty string, s with a cost that is no number,
\* and s with a variant Argon2 does not have
NotMetadata(s) ==
    {SubSeq(s, 1, Len(s) - 2), s \o <<",", "x">>, <<>>,
     [s EXCEPT ![3] = "fast"], [s EXCEPT ![Len(s)] = "IDX"]}

MetadataStrs ==
    {Argon2Metadata_to_str(m) : m \in Hashers}
       \cup NotMetadata(Argon2Metadata_to_str(Argon2Metadata))

InitMetadata ==
    /\ database = <<>>
    /\ USER_NUMBER = 0
    /\ aes_cipher = AES256
    /\ argon_hasher \in Hashers
    /\ verbose = FALSE
    /\ last = [op |-> "__init__", ret |-> TRUE, out |-> <<>>, wrote |-> FALSE]
    /\ password_of = <<>>
    /\ calls = <<>>
    /\ unit = [pc |-> "new", data |-> <<>>, variable_salt |-> <<>>,
               hashed_by |-> argon_hasher, returned |-> <<>>, data_hashed |-> <<>>,
               asked |-> <<>>, result |-> <<>>, metadata_str |-> <<>>,
               raised |-> ""]

\* Argon2id(pepper, metadata_str): the new object replaces the hasher in use,
\* unless __init__ raised
Argon2id_init_str(metadata_str) ==
    /\ unit.pc = "hashed"
    /\ unit.metadata_str = <<>>
    /\ LET new == Argon2id_metadata(metadata_str)
       IN  /\ argon_hasher' = IF new.raised = "" THEN new.m ELSE argon_hasher
           /\ unit' = [unit EXCEPT !.metadata_str = <<metadata_str>>,
                                   !.raised = new.raised]
    /\ UNCHANGED <<database, USER_NUMBER, aes_cipher, verbose, last, password_of,
                   calls>>

NextMetadata ==
    \/ \E p \in UnitPasswords, s \in VariableSalts : hash(p, s)
    \/ \E s \in MetadataStrs : Argon2id_init_str(s)
    \/ \E p \in UnitPasswords, s \in VariableSalts : verify(p, s)
    \/ needs_rehash

SpecMetadata == InitMetadata /\ [][NextMetadata]_vars

(***************************************************************************)
(* What a call would return in the server as it stands.                    *)
(***************************************************************************)
index(email) == HMAC_hash(HMAC_KEY, email)

Registered(S, email) == index(email) \in DOMAIN S.database

LoginReturns(S, email, password) ==
    \A rnd \in Draws(S) : Server_login_attempt(S, email, password, rnd).ret

GetUserIsNone(S, email) == Server_get_user(S, email).ret = None

(***************************************************************************)
(* A store that other programs write too.  password_hashed is a TEXT       *)
(* column of the SQLite file: a row may come from a migration of another   *)
(* system or may be damaged, and then holds a string that is no hash of    *)
(* this vault.                                                             *)
(***************************************************************************)
\* the password_hashed of the row of email is overwritten outside the Server
foreign_write(email) ==
    /\ Registered(self, email)
    /\ IsArgon2Hash(database[index(email)].password_hashed)
    /\ \E h \in NotTheHash(database[index(email)].password_hashed) :
         database' = [database EXCEPT ![index(email)].password_hashed = h]
    /\ last' = [op |-> "sqlite3", ret |-> TRUE, out |-> <<>>, wrote |-> TRUE]
    /\ UNCHANGED <<USER_NUMBER, aes_cipher, argon_hasher, verbose, password_of,
                   calls, unit>>

InitForeign ==
    /\ database = <<>>
    /\ USER_NUMBER = 0
    /\ aes_cipher = AES256
    /\ argon_hasher \in ArgonParamSets
    /\ verbose \in BOOLEAN
    /\ last = [op |-> "__init__", ret |-> TRUE, out |-> <<>>, wrote |-> FALSE]
    /\ password_of = <<>>
    /\ calls = <<>>
    /\ unit = <<>>

NextForeign ==
    \/ \E e \in Emails, p \in Passwords : register(e, p)
    \/ \E e \in Emails, p \in Passwords : login_attempt(e, p)
    \/ \E e \in Emails : foreign_write(e)

SpecForeign == InitForeign /\ [][NextForeign]_vars

(***************************************************************************)
(* C1: register(i, p) returns true and creates exactly one record, keyed   *)
(* by index(i), when the store holds no record for i; it returns false     *)
(* when one exists, and then the store is left as it was.                  *)
(***************************************************************************)
C1_RegisterOnceOnly ==
    [][\A e \in Emails, p \in Passwords :
         (last'.op = "register" /\ register(e, p)) =>
           IF Registered(self, e)
           THEN last'.ret = FALSE /\ database' = database
           ELSE /\ last'.ret = TRUE
                /\ DOMAIN database' = DOMAIN database \cup {index(e)}
                /\ database'[index(e)].email_hashed = index(e)
                /\ \A k \in DOMAIN database : database'[k] = database[k]]_vars

C1_Witness ==
    /\ last.op = "register"
    /\ last.ret = FALSE
    /\ Cardinality(DOMAIN database) = 2

(***************************************************************************)
(* C2: in every reachable state, so after any number of calls, a login to  *)
(* a registered identifier returns true with the password its record was   *)
(* last given and false with every other password.                         *)
(***************************************************************************)
C2_LoginIffCurrentPassword ==
    \A e \in Emails, p \in Passwords :
        Registered(self, e) =>
            (LoginReturns(self, e, p) <=> p = password_of[index(e)])

C2_Witness ==
    /\ last.op = "login_attempt"
    /\ last.ret = TRUE
    /\ \E e \in Emails, p \in Passwords :
          Registered(self, e) /\ p # password_of[index(e)]

(***************************************************************************)
(* C3: a change_password(i, new) on a registered i returns true, and then  *)
(* login_attempt(i, new) returns true and login_attempt(i, p) false for    *)
(* every other p; what logins to a registered i return is changed by no    *)
(* call but change_password, change_email and delete_user on i; and        *)
(* change_password on an identifier with no record returns false and       *)
(* leaves the store as it was.                                             *)
(***************************************************************************)
C3_ChangePassword ==
    [][\A e \in Emails :
         /\ \A new \in Passwords :
              (last'.op = "change_password" /\ change_password(e, new)) =>
                IF Registered(self, e)
                THEN /\ last'.ret = TRUE
                     /\ \A p \in Passwords : LoginReturns(self', e, p) <=> p = new
                ELSE last'.ret = FALSE /\ database' = database
         /\ \/ \A p \in Passwords :
                 LoginReturns(self', e, p) <=> LoginReturns(self, e, p)
            \/ ~Registered(self, e)
            \/ \E p \in Passwords : change_password(e, p)
            \/ \E n \in Emails, p \in Passwords : change_email(e, n, p)
            \/ delete_user(e)]_vars

C3_Witness ==
    /\ last.op = "change_password"
    /\ last.ret = TRUE
    /\ \E e \in Emails :
          /\ Registered(self, e)
          /\ password_of[index(e)] = <<"p", "w">>
          /\ LoginReturns(self, e, <<"p", "w">>)
          /\ ~LoginReturns(self, e, <<"p">>)

(***************************************************************************)
(* C4 as stated: whenever change_email(old, new, password) returns true,   *)
(* get_user(old) is None and get_user(new) is not None afterwards.         *)
(***************************************************************************)
C4_AsStated ==
    [][\A old \in Emails, new \in Emails, p \in Passwords :
         (last'.op = "change_email" /\ last'.ret /\ change_email(old, new, p))
           => GetUserIsNone(self', old) /\ ~GetUserIsNone(self', new)]_vars

(***************************************************************************)
(* C4 as amended: whenever change_email(old, new, password) returns true,  *)
(* get_user(new) is not None afterwards, and get_user(old) is None unless  *)
(* new = old; change_email on an old identifier with no record returns     *)
(* false.                                                                  *)
(***************************************************************************)
C4_ChangeEmail ==
    [][\A old \in Emails, new \in Emails, p \in Passwords :
         (last'.op = "change_email" /\ change_email(old, new, p)) =>
           /\ last'.ret = TRUE =>
                /\ ~GetUserIsNone(self', new)
                /\ new # old => GetUserIsNone(self', old)
           /\ ~Registered(self, old) => last'.ret = FALSE]_vars

C4_Witness ==
    /\ last.op = "change_email"
    /\ last.ret = TRUE
    /\ \E old \in Emails, new \in Emails :
          new # old /\ GetUserIsNone(self, old) /\ ~GetUserIsNone(self, new)

(***************************************************************************)
(* C5: delete_user(i) returns true and removes the record of i, and no     *)
(* other, exactly when the store holds one; otherwise it returns false and *)
(* leaves the store as it was.  A delete_user(i) right after it returns    *)
(* false.                                                                  *)
(***************************************************************************)
C5_DeleteUser ==
    [][\A e \in Emails :
         (last'.op = "delete_user" /\ delete_user(e)) =>
           /\ last'.ret = Registered(self, e)
           /\ database' = [k \in DOMAIN database \ {index(e)} |-> database[k]]
           /\ ~Registered(self', e)
           /\ ~Server_delete_user(self', e).ret]_vars

C5_Witness ==
    /\ last.op = "delete_user"
    /\ last.ret = TRUE
    /\ Cardinality(DOMAIN database) = 1

(***************************************************************************)
(* C7 as stated: a login to an identifier with no record and a login to a  *)
(* registered identifier with a wrong password have the same outcome: both *)
(* return false, neither changes the store, and both print the same.       *)
(***************************************************************************)
C7_AsStated ==
    \A e1 \in Emails, e2 \in Emails, p1 \in Passwords, p2 \in Passwords :
        ( /\ ~Registered(self, e1)
          /\ Registered(self, e2)
          /\ p2 # password_of[index(e2)] )
        => \A rnd \in Draws(self) :
             LET unknown == Server_login_attempt(self, e1, p1, rnd)
                 wrong == Server_login_attempt(self, e2, p2, rnd)
             IN  /\ ~unknown.ret /\ ~wrong.ret
                 /\ unknown.S.database = database
                 /\ wrong.S.database = database
                 /\ unknown.out = wrong.out

(***************************************************************************)
(* C8: a login_attempt(i, p) that verifies against a hash that needs a     *)
(* rehash returns true and leaves, by its one step, the record of i with a *)
(* hash that needs none and verifies p under index(i), with the current    *)
(* metadata, and with nothing else in the store changed; every other       *)
(* login_attempt leaves the store as it was.                               *)
(***************************************************************************)
C8_LazyRehash ==
    [][\A e \in Emails, p \in Passwords :
         (last'.op = "login_attempt" /\ login_attempt(e, p)) =>
           LET k == index(e)
               stale ==
                 /\ Registered(self, e)
                 /\ Argon2id_verify(argon_hasher, database[k].password_hashed, p, k)
                 /\ Argon2id_needs_rehash(argon_hasher, database[k].password_hashed)
           IN  IF stale
               THEN /\ last'.ret = TRUE
                    /\ ~Argon2id_needs_rehash(argon_hasher, database'[k].password_hashed)
                    /\ Argon2id_verify(argon_hasher, database'[k].password_hashed, p, k)
                    /\ database'[k].metadata = Server_get_metadata(self)
                    /\ database' =
                         [database EXCEPT
                            ![k].password_hashed = database'[k].password_hashed,
                            ![k].metadata = database'[k].metadata]
               ELSE database' = database]_vars

C8_Witness ==
    /\ last.op = "login_attempt"
    /\ last.ret = TRUE
    /\ last.wrote = TRUE

(***************************************************************************)
(* C9: a record whose hash was produced under parameters other than those  *)
(* of the running hasher still verifies: a login with the password it was  *)
(* given returns true, with any other password false.                      *)
(***************************************************************************)
C9_OldParametersVerify ==
    \A e \in Emails :
        ( /\ Registered(self, e)
          /\ extract_parameters(database[index(e)].password_hashed)
               # to_hasher(argon_hasher) )
        => \A p \in Passwords :
             LoginReturns(self, e, p) <=> p = password_of[index(e)]

C9_Witness ==
    /\ last.op = "login_attempt"
    /\ last.ret = FALSE
    /\ \A e \in Emails :
          /\ Registered(self, e)
          /\ extract_parameters(database[index(e)].password_hashed)
               # to_hasher(argon_hasher)
          /\ LoginReturns(self, e, password_of[index(e)])

(***************************************************************************)
(* C10 as stated: after change_password(i, new) returns true the store     *)
(* holds the same keys, the record of i verifies new under index(i), and   *)
(* its metadata is the server's get_metadata().                            *)
(***************************************************************************)
C10_AsStated ==
    [][\A e \in Emails, new \in Passwords :
         (last'.op = "change_password" /\ last'.ret /\ change_password(e, new)) =>
           /\ DOMAIN database' = DOMAIN database
           /\ Argon2id_verify(argon_hasher, database'[index(e)].password_hashed,
                              new, index(e))
           /\ database'[index(e)].metadata = Server_get_metadata(self')]_vars

C11_AsStated ==
    [][\A old \in Emails, new \in Emails, p \in Passwords :
         (last'.op = "change_email" /\ last'.ret /\ change_email(old, new, p))
           => \A q \in Passwords :
                LoginReturns(self', new, q) <=> LoginReturns(self, old, q)]_vars

(***************************************************************************)
(* C12 as stated: in every reachable state no two records of the store     *)
(* carry the same sequence number in user_id_encrypted.                    *)
(***************************************************************************)
C12_AsStated ==
    \A k1 \in DOMAIN database, k2 \in DOMAIN database :
        k1 # k2 =>
            AES256_decrypt(aes_cipher, database[k1].user_id_encrypted).value
              # AES256_decrypt(aes_cipher, database[k2].user_id_encrypted).value

(***************************************************************************)
(* What a record's fields say of the parameters they were produced under.  *)
(***************************************************************************)
\* the cipher attributes AES256.encrypt produced a blob under: the key's
\* iteration count and salt, the nonce, and the tag bytes that were written
encrypted_under(blob) ==
    LET data == b64decode(blob).value
        cell == data[Len(data)]
    IN  [passphrase |-> cell.k.passphrase, salt_size |-> Len(cell.k.salt),
         nonce_size |-> Len(cell.n),
         tag_size |-> Cardinality({j \in 1..Len(data) :
                                      DOMAIN data[j] \in {{"mac"}, {"tag"}}}),
         kdf_iterations |-> cell.k.count]

\* the Argon2Metadata Argon2id.hash produced a hash under
hashed_under(h) ==
    [time_cost |-> h.time_cost, memory_cost |-> h.memory_cost,
     parallelism |-> h.parallelism, hash_len |-> h.hash.len,
     salt_len |-> Len(h.salt), encoding |-> "utf-8", type_ |-> h.type]

(***************************************************************************)
(* C13 as stated: in every reachable state the cipher group of a record's  *)
(* metadata gives the parameters its email_encrypted and user_id_encrypted *)
(* were produced under, and the hash group those its password_hashed was   *)
(* produced under.                                                         *)
(***************************************************************************)
C13_AsStated ==
    \A k \in DOMAIN database :
        LET user == database[k]
            groups == split(user.metadata, ";")
        IN  /\ groups[1] = AES256_get_metadata(encrypted_under(user.email_encrypted))
            /\ groups[1] = AES256_get_metadata(encrypted_under(user.user_id_encrypted))
            /\ groups[2] = Argon2Metadata_to_str(hashed_under(user.password_hashed))

(***************************************************************************)
(* C14 as stated: for every cipher object, every string and every salt and *)
(* nonce drawn, decrypt of the text encrypt returned gives the string back. *)
(***************************************************************************)
C14_AsStated ==
    (unit.pc = "decrypted" /\ unit.text = unit.blob)
        => /\ unit.result[1].ok
           /\ unit.result[1].value = unit.plaintext

C16_HashVerifies ==
    ( /\ unit.pc = "verified"
      /\ unit.data_hashed = unit.returned
      /\ unit.asked.variable_salt = unit.variable_salt )
    => (unit.result[1] <=> unit.asked.data = unit.data)

C16_Witness ==
    /\ unit.pc = "verified"
    /\ unit.data_hashed = unit.returned
    /\ unit.asked.variable_salt = unit.variable_salt
    /\ unit.asked.data = <<"p", "w">>
    /\ unit.data = <<"p">>
    /\ unit.result[1] = FALSE
    /\ argon_hasher = unit.hashed_by

(***************************************************************************)
(* C18 as stated: needs_rehash of a hash is false when the hasher that     *)
(* produced it and the checking hasher have the same time cost, memory     *)
(* cost, parallelism and output length, true when they differ in one of    *)
(* them, and true for a string that is no Argon2 hash.                     *)
(***************************************************************************)
C18_AsStated ==
    unit.pc = "checked" =>
        IF ~IsArgon2Hash(unit.data_hashed) THEN unit.result[1] = TRUE
        ELSE unit.data_hashed = unit.returned =>
               (unit.result[1] <=>
                  <<unit.hashed_by.time_cost, unit.hashed_by.memory_cost,
                    unit.hashed_by.parallelism, unit.hashed_by.hash_len>>
                  # <<argon_hasher.time_cost, argon_hasher.memory_cost,
                      argon_hasher.parallelism, argon_hasher.hash_len>>)

(***************************************************************************)
(* C18 as amended: needs_rehash of a hash is false when the hasher that    *)
(* produced it and the checking hasher have the same time cost, memory     *)
(* cost, parallelism, output length, salt length and variant, true when    *)
(* they differ in one of them, and true for a string that is no Argon2     *)
(* hash.                                                                   *)
(***************************************************************************)
C18_NeedsRehash ==
    unit.pc = "checked" =>
        IF ~IsArgon2Hash(unit.data_hashed) THEN unit.result[1] = TRUE
        ELSE unit.data_hashed = unit.returned =>
               (unit.result[1] <=>
                  <<unit.hashed_by.time_cost, unit.hashed_by.memory_cost,
                    unit.hashed_by.parallelism, unit.hashed_by.hash_len,
                    unit.hashed_by.salt_len, unit.hashed_by.type_>>
                  # <<argon_hasher.time_cost, argon_hasher.memory_cost,
                      argon_hasher.parallelism, argon_hasher.hash_len,
                      argon_hasher.salt_len, argon_hasher.type_>>)

C18_Witness ==
    /\ unit.pc = "checked"
    /\ unit.data_hashed = unit.returned
    /\ unit.hashed_by.salt_len # argon_hasher.salt_len
    /\ unit.hashed_by.time_cost = argon_hasher.time_cost
    /\ unit.hashed_by.hash_len = argon_hasher.hash_len
    /\ unit.result[1] = TRUE

(***************************************************************************)
(* C17: for a record whose password_hashed is no Argon2 hash, verify is    *)
(* false for every password, and a login_attempt to it returns false,      *)
(* prints nothing and leaves the store as it was, as a login with a wrong  *)
(* password does.                                                          *)
(***************************************************************************)
C17_MalformedIsFalse ==
    [][\A e \in Emails, p \in Passwords :
         ( /\ last'.op = "login_attempt"
           /\ login_attempt(e, p)
           /\ Registered(self, e)
           /\ ~IsArgon2Hash(database[index(e)].password_hashed) )
         => /\ ~Argon2id_verify(argon_hasher, database[index(e)].password_hashed,
                                p, index(e))
            /\ last'.ret = FALSE
            /\ last'.out = <<>>
            /\ database' = database]_vars

\* the server prints on a login to an identifier without a record, so this
\* login was to a record, and every record holds a string that is no hash
C17_Witness ==
    /\ last.op = "login_attempt"
    /\ last.ret = FALSE
    /\ verbose
    /\ last.out = <<>>
    /\ \A k \in DOMAIN database : ~IsArgon2Hash(database[k].password_hashed)

(***************************************************************************)
(* C19: in every reachable state, so through whichever Server instance a   *)
(* record was registered and however many instances were built since, the  *)
(* running instance computes the lookup key the record is stored under:    *)
(* get_user finds it, login_attempt with its password returns true, and    *)
(* change_password and delete_user would return true.                      *)
(***************************************************************************)
C19_IndexAcrossInstances ==
    \A e \in Emails :
        index(e) \in DOMAIN password_of =>
            /\ Registered(self, e)
            /\ ~GetUserIsNone(self, e)
            /\ Server_get_user(self, e).ret[1].email_hashed = index(e)
            /\ LoginReturns(self, e, password_of[index(e)])
            /\ \A p \in Passwords, rnd \in Draws(self) :
                  Server_change_password(self, e, p, rnd).ret
            /\ Server_delete_user(self, e).ret

\* the instance has built one User, in the get_user that found the record: the
\* record was registered through an earlier instance
C19_Witness ==
    /\ last.op = "get_user"
    /\ last.ret = TRUE
    /\ USER_NUMBER = 1
    /\ Cardinality(DOMAIN password_of) = 2

(***************************************************************************)
(* C20 as stated: the metadata of every record splits on ';' into exactly  *)
(* three groups, and these on ',' into 5 fields (the cipher's tag,         *)
(* iterations, salt size, nonce size, tag size), 8 fields (the hash's) and *)
(* 2 fields (the index's tag and algorithm).                               *)
(***************************************************************************)
C20_AsStated ==
    \A k \in DOMAIN database :
        LET groups == split(database[k].metadata, ";")
            cipher == split(groups[1], ",")
        IN  /\ Len(groups) = 3
            /\ Len(cipher) = 5
            /\ Len(split(groups[2], ",")) = 8
            /\ Len(split(groups[3], ",")) = 2
            /\ SubSeq(cipher, 2, 5)
                 = << <<ToString(aes_cipher.kdf_iterations)>>,
                      <<ToString(aes_cipher.salt_size)>>,
                      <<ToString(aes_cipher.nonce_size)>>,
                      <<ToString(aes_cipher.tag_size)>> >>

(***************************************************************************)
(* C21 as stated: list_database(decrypt=True) is not aborted by a record   *)
(* that fails to decrypt: it returns, and every record of the store that   *)
(* decrypts is printed with its decrypted fields, wherever the failing     *)
(* record comes in the enumeration.                                        *)
(***************************************************************************)
C21_AsStated ==
    [][(last'.op = "list_database" /\ list_database(TRUE)) =>
         /\ last'.ret = TRUE
         /\ \A k \in DOMAIN database :
              LET text == Server_decrypt_user(self, database[k])
              IN  text.ok =>
                    \E i \in DOMAIN last'.out : last'.out[i] = [user |-> text.value]]_vars

(***************************************************************************)
(* C22: over every interleaving of the calls, a record appears only by the *)
(* insert of a register that returns true (called directly or by           *)
(* change_email) and disappears only by the delete of delete_user or of    *)
(* change_email; the writes of login_attempt, change_password and          *)
(* update_user never create one, also not after a concurrent delete_user   *)
(* removed the record between their read and their write.                  *)
(***************************************************************************)
C22_PresenceChanges ==
    [][\A e \in Emails :
         /\ (index(e) \notin DOMAIN database /\ index(e) \in DOMAIN database') =>
               \E p \in Procs :
                  /\ calls[p].pc = "register_add_user"
                  /\ calls[p].email = e
                  /\ calls'[p].pc = "done"
                  /\ calls'[p].ret = <<TRUE>>
         /\ (index(e) \in DOMAIN database /\ index(e) \notin DOMAIN database') =>
               \E p \in Procs :
                  /\ calls[p].pc \in {"delete_user", "change_email"}
                  /\ calls[p].email = e
                  /\ calls'[p].by = "delete_user"]_vars

\* a login's rehash or a change_password wrote after the record was deleted
C22_Witness ==
    \E p \in Procs, q \in Procs :
       /\ calls[p].op \in {"login_attempt", "change_password"}
       /\ calls[p].pc = "done"
       /\ calls[p].missed
       /\ calls[q].op = "delete_user"
       /\ calls[q].email = calls[p].email
       /\ calls[q].ret = <<TRUE>>
       /\ index(calls[p].email) \notin DOMAIN database

(***************************************************************************)
(* C23: mutations on one lookup key are serialized.  When a                *)
(* login_attempt(i, old) that rehashes runs concurrently with a            *)
(* change_password(i, new), new other than old, and both have finished,    *)
(* change_password having returned true, then login_attempt(i, new)        *)
(* returns true and login_attempt(i, old) returns false.                   *)
(***************************************************************************)
C23_AsStated ==
    \A p \in Procs, q \in Procs :
       ( /\ calls[p].op = "login_attempt"
         /\ calls[p].pc = "done"
         /\ calls[p].by = "update_user"
         /\ calls[q].op = "change_password"
         /\ calls[q].pc = "done"
         /\ calls[q].ret = <<TRUE>>
         /\ calls[q].email = calls[p].email
         /\ calls[q].password # calls[p].password )
       => /\ LoginReturns(ServerOf(p), calls[p].email, calls[q].password)
          /\ ~LoginReturns(ServerOf(p), calls[p].email, calls[p].password)

C26_AsStated ==
    [][\A p \in Procs :
         (calls[p].pc = "idle" /\ calls'[p].op = "update_user") =>
            LET user == calls'[p].user_[1]
            IN  IF user.email_hashed \in DOMAIN database
                THEN /\ calls'[p].ret = <<TRUE>>
                     /\ database' = Database_update_user(database, user)
                ELSE /\ calls'[p].ret = <<FALSE>>
                     /\ database' = database]_vars

(***************************************************************************)
(* C27: after any sequence of register, login_attempt, change_password,    *)
(* change_email and delete_user calls, every record's lookup key is the    *)
(* blind index of the identifier its email_encrypted decrypts to, and no   *)
(* two records have one lookup key: the record kept under a key carries    *)
(* that key.                                                               *)
(***************************************************************************)
C27_KeyIsIndexOfIdentifier ==
    \A k \in DOMAIN database :
       LET email == AES256_decrypt(aes_cipher, database[k].email_encrypted)
       IN  /\ email.ok
           /\ Len(email.value) = 1
           /\ index(email.value[1]) = k
           /\ database[k].email_hashed = k

\* two records are in the store, one of them moved there by change_email
C27_Witness ==
    /\ last.op = "change_email"
    /\ last.ret
    /\ Cardinality(DOMAIN database) = 2

(***************************************************************************)
(* C28: Server and Server_Unencrypted are observationally equivalent.      *)
(* Started on empty stores and given the same register, login_attempt,     *)
(* change_password, change_email and delete_user calls, under one hasher   *)
(* configuration, both return the same boolean from every call and hold    *)
(* records for the same identifiers after it.                              *)
(***************************************************************************)
C28_SameReturnsAndIdentifiers ==
    /\ unit.ret = last.ret
    /\ DOMAIN database = {index(e) : e \in DOMAIN unit.S.database}

\* both servers refused a login, and both hold a record that was registered
\* after other calls
C28_Witness ==
    /\ last.op = "login_attempt"
    /\ ~last.ret
    /\ ~unit.ret
    /\ \E e \in DOMAIN unit.S.database :
          /\ unit.S.database[e].user_id_encrypted # "0"
          /\ index(e) \in DOMAIN database

(***************************************************************************)
(* C29: a password hash is bound to the exact pair of password and         *)
(* per-identity salt that created it: under one pepper,                    *)
(* verify(hash(p, s), p2, s2) is true only if p2 = p and s2 = s, for       *)
(* strings of any length.                                                  *)
(***************************************************************************)
C29_AsStated ==
    ( /\ unit.pc = "verified"
      /\ unit.data_hashed = unit.returned
      /\ unit.result = <<TRUE>> )
    => /\ unit.asked.data = unit.data
       /\ unit.asked.variable_salt = unit.variable_salt

=============================================================================
